---- MODULE Spec2Model ----
(***************************************************************************)
(* Model of src/src/media_decoder.rs: the decode driver                    *)
(* (MediaDecoder::start), the pacing thread spawned by MediaDecoder::new,  *)
(* the cpal output callback built by setup_audio_stream, and the two       *)
(* buffers they share (the Mutex<VecDeque> of video frames and the ringbuf *)
(* of f32 samples). Spec and FairSpec are the playback of a container;     *)
(* SelectSpec is the choice of the two streams by MediaDecoder::new, run   *)
(* on every list of stream types up to MaxStreams.                         *)
(*                                                                         *)
(* AppSpec is src/src/app.rs: App::set_on_load_file_request and            *)
(* App::handle_window_event. FwdSpec is the frame channel of               *)
(* src/src/main.rs: main_ffmpeg, the forwarding thread and the event loop. *)
(*                                                                         *)
(* A statement that locks the queue's mutex and releases it at its end     *)
(* (lines 165, 213, 241-244) is one step, enabled while the mutex is free. *)
(* The guard taken in the scrutinee of the if-let at line 167 is a         *)
(* temporary that lives to the end of the if-let, so the pacing thread     *)
(* holds the mutex from the pop to the return of the frame callback.       *)
(* ringbuf's push_slice and pop_slice take no lock and are one step each.  *)
(*                                                                         *)
(* Time is counted in ticks of 64 ns, so that 1 ms (15625 ticks) and       *)
(* 2^32 ns (2^26 ticks) are both whole numbers of ticks and the            *)
(* `(pts - prev) as u32` cast is exact on timestamps that are multiples of *)
(* 64 ns.                                                                  *)
(***************************************************************************)
EXTENDS Integers, Sequences, FiniteSets

\* ---------------------------------------------------------------- bounds
\* Capacity of the video queue. The source uses 50 (media_decoder.rs:213);
\* the model scales it down.
Cv == 2
\* Video packets in the longest container.
MaxVideo == 3
\* Audio packets in the longest container.
MaxAudio == 2
\* Capacity of the audio ring. The source uses 50 * 1024 * 1024
\* (media_decoder.rs:154); the model scales it down.
AudioCap == 2
\* Longest slice of samples one audio frame yields.
MaxSlice == 2
\* Length of the output slice the audio device asks for.
ReqLen == 2
\* Overshoot of a sleep past the requested duration, in milliseconds.
OvershootMs == 2
\* Streams in the longest container MediaDecoder::new is run on.
MaxStreams == 3
\* Calls of App::set_on_load_file_request in a run.
MaxSets == 2
\* Video frames in the longest file main_ffmpeg plays.
MaxFrames == 5

\* ---------------------------------------------------------------- time
NsPerTick == 2 ^ 6

Ms(n) == (n * 1000000) \div NsPerTick

\* `as u32` on a nanosecond count, in ticks: the count modulo 2^32 ns,
\* which is 2^32 / 2^6 = 2^26 ticks.
U32Ticks == 2 ^ 26

AsU32(d) == d % U32Ticks

\* std::thread::sleep(Duration::from_millis(10)) of both loops.
PollSleep == Ms(10)

\* The pacing thread's reading of now.elapsed() is kept up to this value;
\* every sleep_time of the model is below it.
ElapsedCap == Ms(30)

Overshoots == {0, Ms(OvershootMs)}

\* Differences between the timestamps of consecutive decoded video frames:
\* out of order, duplicate, ordinary, and one that does not fit in 32 bits
\* of nanoseconds.
Deltas == {0 - Ms(4), 0, Ms(26), U32Ticks + Ms(26)}

\* The containers played: video only, audio only, and a short one with both.
\* A container is the number of packets of each selected stream; start()
\* ignores the packets of every other stream (lines 222 and 248).
Containers ==
    { [video |-> MaxVideo, audio |-> 0],
      [video |-> 0, audio |-> MaxAudio],
      [video |-> 1, audio |-> 1] }

\* AVMediaType of a stream, as far as new() tells the values apart.
StreamTypes == {"audio", "video", "subtitle"}

\* The stream lists new() is run on, the empty one included.
StreamLists == UNION {[1..n -> StreamTypes] : n \in 0..MaxStreams}

\* What a sample slot the ring did not write may hold: silence, or whatever
\* the audio backend left in its buffer.
Stale == 0 - 1

Fills == {0, Stale}

Min(a, b) == IF a < b THEN a ELSE b

Take(s, n) == SubSeq(s, 1, n)

Drop(s, n) == SubSeq(s, n + 1, Len(s))

\* ---------------------------------------------------------------- state
VARIABLES
    dpc,          \* decode driver: check | stalled | read | push_video | push_audio | done | panicked
    last_pts,     \* timestamp of the last decoded video frame
    nVideo,       \* video frames pushed so far (a frame's payload is its number)
    src_video,    \* packets of the video stream left in the container
    src_audio,    \* packets of the audio stream left in the container
    nSamples,     \* audio samples produced so far (a sample is its number)
    pend_frame,   \* <<>> or <<frame>>: the frame built at lines 229-240
    pend_audio,   \* float_samples of lines 259-262
    increasing,   \* every decoded video timestamp exceeded the one before it
    after_stall,  \* the driver found the queue full since its last video push
    end_cause,    \* why next_packet() failed: none | eof | error
    video_queue,  \* VecDeque, front first
    mutex,        \* holder of the video queue's Mutex: free | pacer
    ppc,          \* pacing thread: sleep | pop | pace | stamp | callback
    prev_pts,     \* <<>> (None) or <<pts>> (Some)
    sinceNow,     \* wall-clock time since `now` was last set
    cur,          \* <<>> or <<frame>>: the frame bound by the if-let at line 167
    paced,        \* <<>> or <<d>>: the spin_sleep executed for cur
    starved,      \* the pacing thread found the queue empty since the last delivery
    delivered,    \* payloads handed to new_frame_callback, in order
    wall,         \* <<t>>: wall-clock time from the first delivery to the last one,
                  \* kept while the timestamps delivered increase and no poll
                  \* has found the queue empty since; else <<>>
    audio_rb,     \* samples in the ring, oldest first
    data,         \* the output slice after the last audio callback
    npc,          \* MediaDecoder::new: loop | unwrap | ready | panicked
    streams,      \* the container's stream types, stream 0 first
    stream_i,     \* the loop variable i of line 39
    first_audio_stream,   \* <<>> (None) or <<index>> (Some)
    first_video_stream,   \* <<>> (None) or <<index>> (Some)
    target_os,    \* app.rs: the cfg!(target_os) of the build
    modifiers,    \* App.input.modifiers
    on_load_file_request, \* <<>> (None) or <<k>>: the k-th callback installed
    nSet,         \* calls of set_on_load_file_request so far
    calls,        \* invocations of a load-file callback: which one, with what
    event,        \* the window event handled last
    held,         \* <<>> or <<state>>: the most recent ModifiersChanged state
    mpc,          \* main.rs, main_ffmpeg: read | send | returned
    src_frames,   \* video frames the file of main_ffmpeg has left
    nSent,        \* frames main_ffmpeg has built so far (a frame is its number)
    channel,      \* the bounded(1) channel, oldest first
    rpc,          \* forwarding thread: recv | send_event | panicked
    received,     \* <<>> or <<frame>>: the value recv() returned
    event_queue,  \* user events sent through the proxy and not yet dispatched
    dispatched    \* NewFrameReady payloads the event loop has handled, in order

vars == <<dpc, src_video, src_audio, last_pts, nVideo, nSamples, pend_frame,
          pend_audio, increasing, after_stall, end_cause,
          video_queue, mutex, ppc, prev_pts, sinceNow, cur, paced, starved,
          delivered, wall, audio_rb, data,
          npc, streams, stream_i, first_audio_stream, first_video_stream,
          target_os, modifiers, on_load_file_request, nSet, calls, event,
          held, mpc, src_frames, nSent, channel, rpc, received, event_queue,
          dispatched>>

driverVars == <<dpc, src_video, src_audio, last_pts, nVideo, nSamples, pend_frame,
                pend_audio, increasing, after_stall, end_cause>>

pacerVars == <<ppc, prev_pts, sinceNow, cur, paced, starved, delivered, wall>>

audioVars == <<audio_rb, data>>

selectVars == <<npc, streams, stream_i, first_audio_stream, first_video_stream>>

appVars == <<target_os, modifiers, on_load_file_request, nSet, calls, event,
             held>>

fwdVars == <<mpc, src_frames, nSent, channel, rpc, received, event_queue,
             dispatched>>

uiVars == <<appVars, fwdVars>>

\* app.rs lines 4-11: #[derive(Default)] of Modifiers.
DefaultModifiers ==
    [alt |-> FALSE, ctrl |-> FALSE, shift |-> FALSE, mac_cmd |-> FALSE,
     command |-> FALSE]

\* app.rs lines 25-31: App::new, in a build for the given target.
AppNew(os) ==
    /\ target_os = os
    /\ modifiers = DefaultModifiers
    /\ on_load_file_request = <<>>
    /\ nSet = 0
    /\ calls = <<>>
    /\ event = [kind |-> "none"]
    /\ held = <<>>

\* main.rs lines 266-277: the channel is created and both threads are
\* spawned, on a file of n video frames.
FwdNew(n) ==
    /\ mpc = "read"
    /\ src_frames = n
    /\ nSent = 0
    /\ channel = <<>>
    /\ rpc = "recv"
    /\ received = <<>>
    /\ event_queue = <<>>
    /\ dispatched = <<>>

\* Lines 153-159 and 211: the buffers are empty, the pacing thread is at the
\* top of its loop and start() at the top of its own.
InitBuffers ==
    /\ dpc = "check"
    /\ last_pts = 0
    /\ nVideo = 0
    /\ end_cause = "none"
    /\ nSamples = 0
    /\ pend_frame = <<>>
    /\ pend_audio = <<>>
    /\ increasing = TRUE
    /\ after_stall = FALSE
    /\ video_queue = <<>>
    /\ mutex = "free"
    /\ ppc = "sleep"
    /\ prev_pts = <<>>
    /\ sinceNow = 0
    /\ cur = <<>>
    /\ paced = <<>>
    /\ starved = FALSE
    /\ delivered = <<>>
    /\ wall = <<>>
    /\ audio_rb = <<>>
    /\ data = <<>>

\* The state after construction, for a container of one video and one audio
\* stream.
Init ==
    /\ InitBuffers
    /\ \E c \in Containers : src_video = c.video /\ src_audio = c.audio
    /\ npc = "ready"
    /\ streams = <<"video", "audio">>
    /\ stream_i = Len(streams)
    /\ first_video_stream = <<0>>
    /\ first_audio_stream = <<1>>
    /\ AppNew("linux")
    /\ FwdNew(0)

\* ------------------------------------------------- MediaDecoder::new
\* The state at line 37, before the loop over the streams.
SelectInit ==
    /\ InitBuffers
    /\ src_video = 0
    /\ src_audio = 0
    /\ npc = "loop"
    /\ streams \in StreamLists
    /\ stream_i = 0
    /\ first_audio_stream = <<>>
    /\ first_video_stream = <<>>
    /\ AppNew("linux")
    /\ FwdNew(0)

\* Mutant: a stream is recorded only while none of its type has been.
RecordKeepFirst(found, type, wanted, idx) ==
    IF type = wanted /\ found = <<>> THEN <<idx>> ELSE found

\* Lines 43-48: `if stream_type == X { first_x_stream = Some(i) }`.
Record(found, type, wanted, idx) ==
    IF type = wanted THEN <<idx>> ELSE found

\* Lines 39-49: one iteration of `for i in 0..get_nb_streams()`.
NewVisit ==
    /\ npc = "loop"
    /\ stream_i < Len(streams)
    /\ first_audio_stream' =
          Record(first_audio_stream, streams[stream_i + 1], "audio", stream_i)
    /\ first_video_stream' =
          Record(first_video_stream, streams[stream_i + 1], "video", stream_i)
    /\ stream_i' = stream_i + 1
    /\ UNCHANGED <<npc, streams>>
    /\ UNCHANGED <<driverVars, pacerVars, audioVars, video_queue, mutex>>
    /\ UNCHANGED uiVars

\* Line 39: the range is exhausted.
NewLoopEnd ==
    /\ npc = "loop"
    /\ stream_i = Len(streams)
    /\ npc' = "unwrap"
    /\ UNCHANGED <<streams, stream_i, first_audio_stream, first_video_stream>>
    /\ UNCHANGED <<driverVars, pacerVars, audioVars, video_queue, mutex>>
    /\ UNCHANGED uiVars

\* Lines 51-52: both options are unwrapped.
NewUnwrap ==
    /\ npc = "unwrap"
    /\ npc' = IF first_audio_stream # <<>> /\ first_video_stream # <<>>
                 THEN "ready" ELSE "panicked"
    /\ UNCHANGED <<streams, stream_i, first_audio_stream, first_video_stream>>
    /\ UNCHANGED <<driverVars, pacerVars, audioVars, video_queue, mutex>>
    /\ UNCHANGED uiVars

SelectNext == NewVisit \/ NewLoopEnd \/ NewUnwrap

SelectSpec == SelectInit /\ [][SelectNext]_vars

\* ------------------------------------------------------- the video queue
\* Mutant: the frame is pushed at the end the pacing thread pops from.
PushBack(q, f) == Append(q, f)

\* VecDeque::push_front
PushFront(q, f) == <<f>> \o q

\* VecDeque::pop_back: the element removed and the queue left.
PopBackElem(q) == q[Len(q)]

\* Mutant: the pacing thread reads the back element and leaves it queued.
PopBackKeep(q) == q

PopBackRest(q) == SubSeq(q, 1, Len(q) - 1)

\* Mutant: the test is off by one.
QueueFullOffByOne(q) == Len(q) > Cv

\* The driver's test at line 213.
QueueFull(q) == Len(q) >= Cv

\* ------------------------------------------------------------ the driver
\* Line 213: lock, len, unlock; lines 214-215 when the queue is full.
DCheck ==
    /\ dpc = "check"
    /\ mutex = "free"
    /\ dpc' = IF QueueFull(video_queue) THEN "stalled" ELSE "read"
    /\ after_stall' = (after_stall \/ QueueFull(video_queue))
    /\ UNCHANGED <<src_video, src_audio, last_pts, nVideo, nSamples, pend_frame,
                   pend_audio, increasing, video_queue, mutex>>
    /\ UNCHANGED pacerVars
    /\ UNCHANGED audioVars
    /\ UNCHANGED end_cause
    /\ UNCHANGED selectVars
    /\ UNCHANGED uiVars

\* Lines 214-215: the 10 ms sleep ends and the loop continues.
DStallWake ==
    /\ dpc = "stalled"
    /\ dpc' = "check"
    /\ UNCHANGED <<src_video, src_audio, last_pts, nVideo, nSamples, pend_frame,
                   pend_audio, increasing, after_stall, video_queue, mutex>>
    /\ UNCHANGED pacerVars
    /\ UNCHANGED audioVars
    /\ UNCHANGED end_cause
    /\ UNCHANGED selectVars
    /\ UNCHANGED uiVars

\* What start() hands its caller: it returns () from the `break` at line
\* 219, or unwinds with the panic of an unwrap().
StartOutcome ==
    CASE dpc = "done" -> "returned"
      [] dpc = "panicked" -> "panic"
      [] OTHER -> "running"

\* Mutant: the loop goes on when next_packet() fails.
DReadEofContinue ==
    /\ dpc = "read"
    /\ src_video = 0
    /\ src_audio = 0
    /\ end_cause' = "eof"
    /\ dpc' = "check"
    /\ UNCHANGED <<src_video, src_audio, last_pts, nVideo, nSamples, pend_frame,
                   pend_audio, increasing, after_stall, video_queue, mutex>>
    /\ UNCHANGED pacerVars
    /\ UNCHANGED audioVars
    /\ UNCHANGED selectVars
    /\ UNCHANGED uiVars

\* Lines 218-220: next_packet() fails because the container has no packet
\* left: `break`.
DReadEof ==
    /\ dpc = "read"
    /\ src_video = 0
    /\ src_audio = 0
    /\ end_cause' = "eof"
    /\ dpc' = "done"
    /\ UNCHANGED <<src_video, src_audio, last_pts, nVideo, nSamples, pend_frame,
                   pend_audio, increasing, after_stall, video_queue, mutex>>
    /\ UNCHANGED pacerVars
    /\ UNCHANGED audioVars
    /\ UNCHANGED selectVars
    /\ UNCHANGED uiVars

\* Lines 218-220: next_packet() fails on a read error while packets remain:
\* the same `break`.
DReadError ==
    /\ dpc = "read"
    /\ src_video + src_audio > 0
    /\ end_cause' = "error"
    /\ dpc' = "done"
    /\ UNCHANGED <<src_video, src_audio, last_pts, nVideo, nSamples, pend_frame,
                   pend_audio, increasing, after_stall, video_queue, mutex>>
    /\ UNCHANGED pacerVars
    /\ UNCHANGED audioVars
    /\ UNCHANGED selectVars
    /\ UNCHANGED uiVars

\* Lines 218-220: `let Ok(packet) = next_packet() else { break }`.
DReadEnd == DReadEof \/ DReadError

\* Mutant: a failed decode ends the loop.
DReadSkipBreaks ==
    /\ dpc = "read"
    /\ \/ src_video > 0 /\ src_video' = src_video - 1 /\ UNCHANGED src_audio
       \/ src_audio > 0 /\ src_audio' = src_audio - 1 /\ UNCHANGED src_video
    /\ dpc' = "done"
    /\ UNCHANGED <<last_pts, nVideo, nSamples, pend_frame, pend_audio,
                   increasing, after_stall, video_queue, mutex, end_cause>>
    /\ UNCHANGED pacerVars
    /\ UNCHANGED audioVars
    /\ UNCHANGED selectVars
    /\ UNCHANGED uiVars

\* Lines 223-225 and 249-251: the decode of a video or an audio packet
\* fails: `continue`.
DReadSkip ==
    /\ dpc = "read"
    /\ \/ src_video > 0 /\ src_video' = src_video - 1 /\ UNCHANGED src_audio
       \/ src_audio > 0 /\ src_audio' = src_audio - 1 /\ UNCHANGED src_video
    /\ dpc' = "check"
    /\ UNCHANGED <<last_pts, nVideo, nSamples, pend_frame, pend_audio,
                   increasing, after_stall, video_queue, mutex, end_cause>>
    /\ UNCHANGED pacerVars
    /\ UNCHANGED audioVars
    /\ UNCHANGED selectVars
    /\ UNCHANGED uiVars

\* Lines 226-227 and 252-253: the packet decodes, and process(..).unwrap()
\* panics on a filter error or first().unwrap() on an empty output.
DReadPanic ==
    /\ dpc = "read"
    /\ \/ src_video > 0 /\ src_video' = src_video - 1 /\ UNCHANGED src_audio
       \/ src_audio > 0 /\ src_audio' = src_audio - 1 /\ UNCHANGED src_video
    /\ dpc' = "panicked"
    /\ UNCHANGED <<last_pts, nVideo, nSamples, pend_frame, pend_audio,
                   increasing, after_stall, video_queue, mutex, end_cause>>
    /\ UNCHANGED pacerVars
    /\ UNCHANGED audioVars
    /\ UNCHANGED selectVars
    /\ UNCHANGED uiVars

\* Lines 222-240: a video packet decodes and filters; the frame is built.
\* The first frame's timestamp is 0, each later one differs from the one
\* before it by one of Deltas.
DReadVideo ==
    /\ dpc = "read"
    /\ src_video > 0
    /\ src_video' = src_video - 1
    /\ \E d \in (IF nVideo = 0 THEN {0} ELSE Deltas) :
          /\ last_pts' = last_pts + d
          /\ pend_frame' = <<[pts |-> last_pts + d, id |-> nVideo + 1]>>
          /\ increasing' = (increasing /\ (nVideo = 0 \/ d > 0))
    /\ dpc' = "push_video"
    /\ UNCHANGED <<src_audio, nVideo, nSamples, pend_audio, after_stall,
                   video_queue, mutex>>
    /\ UNCHANGED pacerVars
    /\ UNCHANGED audioVars
    /\ UNCHANGED end_cause
    /\ UNCHANGED selectVars
    /\ UNCHANGED uiVars

\* Lines 241-244: lock, push_front, unlock.
DPushVideo ==
    /\ dpc = "push_video"
    /\ mutex = "free"
    /\ video_queue' = PushFront(video_queue, pend_frame[1])
    /\ nVideo' = nVideo + 1
    /\ pend_frame' = <<>>
    /\ after_stall' = FALSE
    /\ dpc' = "check"
    /\ UNCHANGED <<src_video, src_audio, last_pts, nSamples, pend_audio,
                   increasing, mutex>>
    /\ UNCHANGED pacerVars
    /\ UNCHANGED audioVars
    /\ UNCHANGED end_cause
    /\ UNCHANGED selectVars
    /\ UNCHANGED uiVars

\* ------------------------------------------------------- the audio ring
\* HeapProducer::push_slice: appends as many samples as fit and returns their
\* number; the rest of the slice is not written.
PushSliceCount(rb, slice) == Min(AudioCap - Len(rb), Len(slice))

PushSlice(rb, slice) == rb \o Take(slice, PushSliceCount(rb, slice))

\* HeapConsumer::pop_slice: moves the oldest samples into the head of the
\* slice and returns their number; the rest of the slice is not written.
PopSliceCount(rb, buf) == Min(Len(rb), Len(buf))

PopSliceOut(rb, buf) ==
    Take(rb, PopSliceCount(rb, buf)) \o Drop(buf, PopSliceCount(rb, buf))

PopSliceRest(rb, buf) == Drop(rb, PopSliceCount(rb, buf))

\* Lines 248-262: an audio packet decodes and filters; float_samples is built.
DReadAudio ==
    /\ dpc = "read"
    /\ src_audio > 0
    /\ src_audio' = src_audio - 1
    /\ \E n \in 1..MaxSlice :
          /\ pend_audio' = [i \in 1..n |-> nSamples + i]
          /\ nSamples' = nSamples + n
    /\ dpc' = "push_audio"
    /\ UNCHANGED <<src_video, last_pts, nVideo, pend_frame, increasing,
                   after_stall, video_queue, mutex>>
    /\ UNCHANGED pacerVars
    /\ UNCHANGED audioVars
    /\ UNCHANGED end_cause
    /\ UNCHANGED selectVars
    /\ UNCHANGED uiVars

\* Line 264: push_slice, its result discarded.
DPushAudio ==
    /\ dpc = "push_audio"
    /\ audio_rb' = PushSlice(audio_rb, pend_audio)
    /\ pend_audio' = <<>>
    /\ dpc' = "check"
    /\ UNCHANGED <<src_video, src_audio, last_pts, nVideo, nSamples, pend_frame,
                   increasing, after_stall, video_queue, mutex, data>>
    /\ UNCHANGED pacerVars
    /\ UNCHANGED end_cause
    /\ UNCHANGED selectVars
    /\ UNCHANGED uiVars

\* Mutant: the callback takes the video queue's mutex before it reads.
AudioCallbackLocked ==
    /\ mutex = "free"
    /\ \E f \in Fills :
          LET buf == [i \in 1..ReqLen |-> f]
          IN  /\ data' = PopSliceOut(audio_rb, buf)
              /\ audio_rb' = PopSliceRest(audio_rb, buf)
    /\ UNCHANGED driverVars
    /\ UNCHANGED pacerVars
    /\ UNCHANGED <<video_queue, mutex>>
    /\ UNCHANGED selectVars
    /\ UNCHANGED uiVars

\* Lines 302-304: the output callback. cpal hands it a slice whose contents
\* it does not define.
AudioCallback ==
    /\ \E f \in Fills :
          LET buf == [i \in 1..ReqLen |-> f]
          IN  /\ data' = PopSliceOut(audio_rb, buf)
              /\ audio_rb' = PopSliceRest(audio_rb, buf)
    /\ UNCHANGED driverVars
    /\ UNCHANGED pacerVars
    /\ UNCHANGED <<video_queue, mutex>>
    /\ UNCHANGED selectVars
    /\ UNCHANGED uiVars

\* ------------------------------------------------------- the pacing thread
\* Lines 162-166: the poll sleep, then lock, len, println, unlock. The clock
\* `now` is read only once a previous timestamp exists (line 168), so the
\* elapsed time is counted from the first delivery on.
PPollSleep ==
    /\ ppc = "sleep"
    /\ mutex = "free"
    /\ IF prev_pts = <<>>
          THEN UNCHANGED sinceNow
          ELSE \E o \in Overshoots :
                  sinceNow' = Min(sinceNow + PollSleep + o, ElapsedCap)
    /\ ppc' = "pop"
    /\ UNCHANGED <<prev_pts, cur, paced, starved, delivered>>
    /\ UNCHANGED driverVars
    /\ UNCHANGED audioVars
    /\ UNCHANGED <<video_queue, mutex>>
    /\ UNCHANGED wall
    /\ UNCHANGED selectVars
    /\ UNCHANGED uiVars

\* Line 167 on an empty queue: the guard is dropped, the loop starts over.
PPopNone ==
    /\ ppc = "pop"
    /\ mutex = "free"
    /\ video_queue = <<>>
    /\ starved' = TRUE
    /\ ppc' = "sleep"
    /\ UNCHANGED <<prev_pts, sinceNow, cur, paced, delivered>>
    /\ UNCHANGED driverVars
    /\ UNCHANGED audioVars
    /\ UNCHANGED <<video_queue, mutex>>
    /\ UNCHANGED wall
    /\ UNCHANGED selectVars
    /\ UNCHANGED uiVars

\* Mutant: the guard is dropped at the end of the pop statement.
PPopSomeScoped ==
    /\ ppc = "pop"
    /\ mutex = "free"
    /\ video_queue # <<>>
    /\ cur' = <<PopBackElem(video_queue)>>
    /\ video_queue' = PopBackRest(video_queue)
    /\ paced' = <<>>
    /\ ppc' = "pace"
    /\ UNCHANGED <<prev_pts, sinceNow, starved, delivered, mutex>>
    /\ UNCHANGED driverVars
    /\ UNCHANGED audioVars
    /\ UNCHANGED wall
    /\ UNCHANGED selectVars
    /\ UNCHANGED uiVars

\* Line 167 on a non-empty queue: the MutexGuard is a temporary of the
\* if-let scrutinee and lives to the end of the if-let (line 183).
PPopSome ==
    /\ ppc = "pop"
    /\ mutex = "free"
    /\ video_queue # <<>>
    /\ cur' = <<PopBackElem(video_queue)>>
    /\ video_queue' = PopBackRest(video_queue)
    /\ mutex' = "pacer"
    /\ paced' = <<>>
    /\ ppc' = "pace"
    /\ UNCHANGED <<prev_pts, sinceNow, starved, delivered>>
    /\ UNCHANGED driverVars
    /\ UNCHANGED audioVars
    /\ UNCHANGED wall
    /\ UNCHANGED selectVars
    /\ UNCHANGED uiVars

\* Line 171: Duration::new(0, (pts - prev) as u32).
SleepTime(pts, prev) == AsU32(pts - prev)

\* Mutant: the order of the two timestamps is not tested.
MustSleepUnordered(pts, prevOpt, elapsed) ==
    /\ prevOpt # <<>>
    /\ elapsed < SleepTime(pts, prevOpt[1])

\* Lines 168-177: whether spin_sleep is called for a frame, and for how long.
MustSleep(pts, prevOpt, elapsed) ==
    /\ prevOpt # <<>>
    /\ pts > prevOpt[1]
    /\ elapsed < SleepTime(pts, prevOpt[1])

PPace ==
    /\ ppc = "pace"
    /\ IF MustSleep(cur[1].pts, prev_pts, sinceNow)
          THEN LET d == SleepTime(cur[1].pts, prev_pts[1]) - sinceNow
               IN  /\ paced' = <<d>>
                   /\ \E o \in Overshoots : sinceNow' = sinceNow + d + o
          ELSE UNCHANGED <<paced, sinceNow>>
    /\ ppc' = "stamp"
    /\ UNCHANGED <<prev_pts, cur, starved, delivered>>
    /\ UNCHANGED driverVars
    /\ UNCHANGED audioVars
    /\ UNCHANGED <<video_queue, mutex>>
    /\ UNCHANGED wall
    /\ UNCHANGED selectVars
    /\ UNCHANGED uiVars

\* Mutant: `now` is advanced to the instant the frame was due at.
PStampNominal ==
    /\ ppc = "stamp"
    /\ prev_pts' = <<cur[1].pts>>
    /\ sinceNow' = IF paced = <<>> THEN 0
                   ELSE sinceNow - SleepTime(cur[1].pts, prev_pts[1])
    /\ starved' = FALSE
    /\ wall' = IF prev_pts = <<>> THEN <<0>>
               ELSE IF wall # <<>> /\ ~starved /\ cur[1].pts > prev_pts[1]
                    THEN <<wall[1] + sinceNow>>
               ELSE <<>>
    /\ ppc' = "callback"
    /\ UNCHANGED <<cur, paced, delivered>>
    /\ UNCHANGED driverVars
    /\ UNCHANGED audioVars
    /\ UNCHANGED <<video_queue, mutex>>
    /\ UNCHANGED selectVars
    /\ UNCHANGED uiVars

\* Lines 179-180: prev_pts = Some(pts); now = Instant::now().
PStamp ==
    /\ ppc = "stamp"
    /\ prev_pts' = <<cur[1].pts>>
    /\ sinceNow' = 0
    /\ starved' = FALSE
    /\ wall' = IF prev_pts = <<>> THEN <<0>>
               ELSE IF wall # <<>> /\ ~starved /\ cur[1].pts > prev_pts[1]
                    THEN <<wall[1] + sinceNow>>
               ELSE <<>>
    /\ ppc' = "callback"
    /\ UNCHANGED <<cur, paced, delivered>>
    /\ UNCHANGED driverVars
    /\ UNCHANGED audioVars
    /\ UNCHANGED <<video_queue, mutex>>
    /\ UNCHANGED selectVars
    /\ UNCHANGED uiVars

\* Mutant: the guard outlives the iteration.
PCallbackKeepsLock ==
    /\ ppc = "callback"
    /\ delivered' = Append(delivered, cur[1].id)
    /\ cur' = <<>>
    /\ ppc' = "sleep"
    /\ UNCHANGED <<prev_pts, sinceNow, paced, starved, mutex>>
    /\ UNCHANGED driverVars
    /\ UNCHANGED audioVars
    /\ UNCHANGED video_queue
    /\ UNCHANGED wall
    /\ UNCHANGED selectVars
    /\ UNCHANGED uiVars

\* Lines 182-183: new_frame_callback(frame), then the guard is dropped.
PCallback ==
    /\ ppc = "callback"
    /\ delivered' = Append(delivered, cur[1].id)
    /\ cur' = <<>>
    /\ mutex' = "free"
    /\ ppc' = "sleep"
    /\ UNCHANGED <<prev_pts, sinceNow, paced, starved>>
    /\ UNCHANGED driverVars
    /\ UNCHANGED audioVars
    /\ UNCHANGED video_queue
    /\ UNCHANGED wall
    /\ UNCHANGED selectVars
    /\ UNCHANGED uiVars

Driver == DCheck \/ DStallWake \/ DReadEnd \/ DReadSkip \/ DReadPanic
             \/ DReadVideo \/ DPushVideo \/ DReadAudio \/ DPushAudio

Pacer == PPollSleep \/ PPopNone \/ PPopSome \/ PPace \/ PStamp
            \/ PCallback

Next == Driver \/ Pacer \/ AudioCallback

Spec == Init /\ [][Next]_vars

\* The threads are scheduled by the operating system: the pacing thread is
\* never stopped for good, and the driver, which waits for the mutex the
\* pacing thread releases in every iteration before it sleeps 10 ms, gets it
\* eventually.
FairSpec == Spec /\ WF_vars(Pacer) /\ SF_vars(Driver)

\* ------------------------------------------------------- app.rs: App
\* The targets cfg!(target_os) tells apart.
TargetOs == {"macos", "windows", "linux"}

\* winit's ModifiersState, as far as its four accessors show it.
ModifiersStates ==
    [alt : {FALSE}, ctrl : BOOLEAN, shift : BOOLEAN, logo : BOOLEAN]

\* input.virtual_keycode: None, or Some of a key.
Keycodes == {<<>>, <<"V">>, <<"C">>}

\* Paths and URLs, as sequences of pieces of text.
Urls == {<<"http", "://h/a">>, <<"/", "a">>, <<"c:", "\\", "a">>}

\* Result<String, _> of ClipboardContext::get_contents.
ClipboardResults ==
    {[ok |-> FALSE]} \cup {[ok |-> TRUE, text |-> u] : u \in Urls}

\* Lines 38-46: format_url.
FormatUrl(os, url) ==
    IF url[1] = "http" THEN url
    ELSE IF os = "windows"
         THEN <<"file:///">>
                 \o [i \in DOMAIN url |-> IF url[i] = "\\" THEN "/" ELSE url[i]]
         ELSE <<"file://">> \o url

\* The state App and its caller start from, for every target.
AppInit ==
    /\ InitBuffers
    /\ src_video = 0
    /\ src_audio = 0
    /\ npc = "ready"
    /\ streams = <<"video", "audio">>
    /\ stream_i = Len(streams)
    /\ first_video_stream = <<0>>
    /\ first_audio_stream = <<1>>
    /\ \E os \in TargetOs : AppNew(os)
    /\ FwdNew(0)

playVars == <<driverVars, pacerVars, audioVars, video_queue, mutex, selectVars>>

\* Lines 33-35: set_on_load_file_request.
SetOnLoadFileRequest ==
    /\ nSet < MaxSets
    /\ nSet' = nSet + 1
    /\ on_load_file_request' = <<nSet + 1>>
    /\ UNCHANGED <<target_os, modifiers, calls, event, held>>
    /\ UNCHANGED <<playVars, fwdVars>>

\* Lines 49-59: WindowEvent::ModifiersChanged.
HandleModifiersChanged ==
    /\ \E state \in ModifiersStates :
          /\ modifiers' =
                [alt |-> state.alt, ctrl |-> state.ctrl, shift |-> state.shift,
                 mac_cmd |-> (target_os = "macos" /\ state.logo),
                 command |-> IF target_os = "macos" THEN state.logo
                             ELSE state.ctrl]
          /\ held' = <<state>>
          /\ event' = [kind |-> "ModifiersChanged", state |-> state]
    /\ UNCHANGED <<target_os, on_load_file_request, nSet, calls>>
    /\ UNCHANGED <<playVars, fwdVars>>

\* Mutant: the callback is taken before the clipboard is read.
HandleKeyboardInputTakesFirst ==
    /\ \E keycode \in Keycodes, clipboard \in ClipboardResults :
          /\ event' = [kind |-> "KeyboardInput", keycode |-> keycode,
                       clipboard |-> clipboard]
          /\ IF keycode # <<>> /\ modifiers.command /\ keycode[1] = "V"
                   /\ on_load_file_request # <<>>
                THEN /\ on_load_file_request' = <<>>
                     /\ IF clipboard.ok
                           THEN calls' = Append(calls,
                                   [cb |-> on_load_file_request[1],
                                    url |-> FormatUrl(target_os, clipboard.text)])
                           ELSE UNCHANGED calls
                ELSE UNCHANGED <<on_load_file_request, calls>>
    /\ UNCHANGED <<target_os, modifiers, nSet, held>>
    /\ UNCHANGED <<playVars, fwdVars>>

\* Lines 60-70: WindowEvent::KeyboardInput. The clipboard is read only for
\* command + V; the event records what the read returns.
HandleKeyboardInput ==
    /\ \E keycode \in Keycodes, clipboard \in ClipboardResults :
          /\ event' = [kind |-> "KeyboardInput", keycode |-> keycode,
                       clipboard |-> clipboard]
          /\ IF keycode # <<>> /\ modifiers.command /\ keycode[1] = "V"
                   /\ clipboard.ok /\ on_load_file_request # <<>>
                THEN /\ on_load_file_request' = <<>>
                     /\ calls' = Append(calls,
                            [cb |-> on_load_file_request[1],
                             url |-> FormatUrl(target_os, clipboard.text)])
                ELSE UNCHANGED <<on_load_file_request, calls>>
    /\ UNCHANGED <<target_os, modifiers, nSet, held>>
    /\ UNCHANGED <<playVars, fwdVars>>

\* Mutant: the callback is called through a reference and stays installed.
HandleDroppedFileKeeps ==
    /\ \E path \in Urls :
          /\ event' = [kind |-> "DroppedFile", path |-> path]
          /\ IF on_load_file_request # <<>>
                THEN calls' = Append(calls,
                        [cb |-> on_load_file_request[1],
                         url |-> FormatUrl(target_os, path)])
                ELSE UNCHANGED calls
    /\ UNCHANGED <<target_os, modifiers, nSet, held, on_load_file_request>>
    /\ UNCHANGED <<playVars, fwdVars>>

\* Lines 71-75: WindowEvent::DroppedFile.
HandleDroppedFile ==
    /\ \E path \in Urls :
          /\ event' = [kind |-> "DroppedFile", path |-> path]
          /\ IF on_load_file_request # <<>>
                THEN /\ on_load_file_request' = <<>>
                     /\ calls' = Append(calls,
                            [cb |-> on_load_file_request[1],
                             url |-> FormatUrl(target_os, path)])
                ELSE UNCHANGED <<on_load_file_request, calls>>
    /\ UNCHANGED <<target_os, modifiers, nSet, held>>
    /\ UNCHANGED <<playVars, fwdVars>>

\* Line 76: any other window event.
HandleOther ==
    /\ event' = [kind |-> "Other"]
    /\ UNCHANGED <<target_os, modifiers, on_load_file_request, nSet, calls,
                   held>>
    /\ UNCHANGED <<playVars, fwdVars>>

AppNext ==
    SetOnLoadFileRequest \/ HandleModifiersChanged \/ HandleKeyboardInput
        \/ HandleDroppedFile \/ HandleOther

AppSpec == AppInit /\ [][AppNext]_vars

\* ------------------------------------------- main.rs: frame forwarding
\* crossbeam_channel::bounded::<Vec<u8>>(1).
ChannelCap == 1

\* The state after both threads are spawned, for every length of file.
FwdInit ==
    /\ InitBuffers
    /\ src_video = 0
    /\ src_audio = 0
    /\ npc = "ready"
    /\ streams = <<"video", "audio">>
    /\ stream_i = Len(streams)
    /\ first_video_stream = <<0>>
    /\ first_audio_stream = <<1>>
    /\ AppNew("linux")
    /\ \E n \in 0..MaxFrames : FwdNew(n)

\* Lines 504-537: av_read_frame returns a video packet, a frame is decoded
\* and scaled, and the thread sleeps one frame interval.
FfmpegFrame ==
    /\ mpc = "read"
    /\ src_frames > 0
    /\ src_frames' = src_frames - 1
    /\ mpc' = "send"
    /\ UNCHANGED <<nSent, channel, rpc, received, event_queue, dispatched>>
    /\ UNCHANGED <<playVars, appVars>>

\* Lines 539-548: sender.send(frame).unwrap(); send waits while the channel
\* is full.
FfmpegSend ==
    /\ mpc = "send"
    /\ Len(channel) < ChannelCap
    /\ channel' = Append(channel, nSent + 1)
    /\ nSent' = nSent + 1
    /\ mpc' = "read"
    /\ UNCHANGED <<src_frames, rpc, received, event_queue, dispatched>>
    /\ UNCHANGED <<playVars, appVars>>

\* Line 504 and lines 268-270: av_read_frame fails at the end of the file,
\* main_ffmpeg returns and its sender is dropped.
FfmpegReturn ==
    /\ mpc = "read"
    /\ src_frames = 0
    /\ mpc' = "returned"
    /\ UNCHANGED <<src_frames, nSent, channel, rpc, received, event_queue,
                   dispatched>>
    /\ UNCHANGED <<playVars, appVars>>

\* Line 275: recv() returns Ok of the oldest message.
FwdRecv ==
    /\ rpc = "recv"
    /\ channel # <<>>
    /\ received' = <<Head(channel)>>
    /\ channel' = Tail(channel)
    /\ rpc' = "send_event"
    /\ UNCHANGED <<mpc, src_frames, nSent, event_queue, dispatched>>
    /\ UNCHANGED <<playVars, appVars>>

\* Line 275: on an empty channel whose sender is dropped recv() returns
\* Err(RecvError), and unwrap() panics.
FwdRecvDisconnected ==
    /\ rpc = "recv"
    /\ channel = <<>>
    /\ mpc = "returned"
    /\ rpc' = "panicked"
    /\ UNCHANGED <<mpc, src_frames, nSent, channel, received, event_queue,
                   dispatched>>
    /\ UNCHANGED <<playVars, appVars>>

\* Lines 274-276: send_event(UserEvent::NewFrameReady(..)).unwrap(); the
\* event loop lives as long as the process, so send_event returns Ok.
FwdSendEvent ==
    /\ rpc = "send_event"
    /\ event_queue' = Append(event_queue, received[1])
    /\ received' = <<>>
    /\ rpc' = "recv"
    /\ UNCHANGED <<mpc, src_frames, nSent, channel, dispatched>>
    /\ UNCHANGED <<playVars, appVars>>

\* Lines 349-368: the event loop dispatches Event::UserEvent(NewFrameReady).
EventLoopDispatch ==
    /\ event_queue # <<>>
    /\ dispatched' = Append(dispatched, Head(event_queue))
    /\ event_queue' = Tail(event_queue)
    /\ UNCHANGED <<mpc, src_frames, nSent, channel, rpc, received>>
    /\ UNCHANGED <<playVars, appVars>>

FwdNext ==
    FfmpegFrame \/ FfmpegSend \/ FfmpegReturn \/ FwdRecv
        \/ FwdRecvDisconnected \/ FwdSendEvent \/ EventLoopDispatch

FwdSpec == FwdInit /\ [][FwdNext]_vars

\* ================================================================ claims

Abs(x) == IF x < 0 THEN 0 - x ELSE x

\* The tolerance the specification names for the gap between two deliveries.
Tolerance == Ms(5)

Occurrences(seq, x) == Cardinality({j \in DOMAIN seq : seq[j] = x})

QueuedIds == [j \in DOMAIN video_queue |-> video_queue[j].id]

InHand(i) == IF cur # <<>> /\ cur[1].id = i THEN 1 ELSE 0

Zeros(n) == [i \in 1..n |-> 0]

\* C1: in every reachable state the video queue holds at most Cv frames.
C1_QueueWithinCapacity == Len(video_queue) <= Cv

C1_Witness == Len(video_queue) = Cv /\ dpc = "stalled" /\ Len(delivered) >= 1

\* C2: every audio callback fully defines the output slice: the k oldest
\* buffered samples first, k = min(available, requested), then 0.0 in every
\* remaining element.
C2_CallbackDefinesSlice ==
    [][AudioCallback =>
          data' = Take(audio_rb, Min(Len(audio_rb), ReqLen))
                     \o Zeros(ReqLen - Min(Len(audio_rb), ReqLen))]_vars

\* C3: for strictly increasing timestamps of frames that are available in
\* the queue, the wall-clock gap between two successive deliveries equals the
\* difference of their timestamps up to the tolerance. The gap is the time
\* since the previous delivery, read when the frame is about to be stamped
\* and handed over.
C3_GapMatchesDelta ==
    (ppc = "stamp" /\ prev_pts # <<>> /\ increasing /\ ~starved)
        => Abs(sinceNow - (cur[1].pts - prev_pts[1])) <= Tolerance

\* C4: for the first frame of a session and for a frame whose timestamp is
\* at most the previous one, the pacing thread calls no sleep between
\* popping the frame and handing it to the callback; and a sleep it does
\* call has a positive duration.
C4_NoSleepForFirstOrStale ==
    /\ (ppc = "stamp" /\ (prev_pts = <<>> \/ cur[1].pts <= prev_pts[1]))
          => paced = <<>>
    /\ paced # <<>> => paced[1] > 0

C4_Witness ==
    /\ ppc = "stamp"
    /\ prev_pts # <<>>
    /\ cur[1].pts < prev_pts[1]
    /\ paced = <<>>

\* C5: frames reach the callback in the order the driver pushed them (a
\* frame's payload is its number in push order).
C5_DeliveryOrderIsPushOrder == \A i \in DOMAIN delivered : delivered[i] = i

C5_Witness == Len(delivered) >= 2 /\ Len(video_queue) >= 1

\* C6: every pushed frame is, at any time, in exactly one place: in the
\* queue, in the pacing thread's hands, or delivered, and there once.
C6_ExactlyOnce ==
    /\ \A i \in 1..nVideo :
          Occurrences(delivered, i) + Occurrences(QueuedIds, i) + InHand(i) = 1
    /\ \A j \in DOMAIN delivered : delivered[j] \in 1..nVideo

C6_Witness ==
    /\ Len(delivered) >= 1
    /\ cur # <<>>
    /\ video_queue # <<>>
    /\ nVideo = Len(delivered) + 1 + Len(video_queue)

\* C7 as stated: a driver that stalled on a full queue completes a further
\* video push once a slot is freed; so it never reaches the end of the
\* stream with the stall still unanswered by a push.
C7_PushFollowsFreedSlot ==
    (dpc = "done" /\ src_video = 0 /\ src_audio = 0) => ~after_stall

\* C7 amended: at capacity the driver pushes nothing and stays in its stall
\* loop while the queue is full, holding no decoded frame; under fair
\* scheduling it eventually passes the test and reads the next packet, and a
\* frame it has built is eventually pushed.
C7_StallAndResume ==
    /\ [][QueueFull(video_queue) => Len(video_queue') <= Len(video_queue)]_vars
    /\ [][(dpc \in {"stalled", "check"} /\ QueueFull(video_queue)
             /\ QueueFull(video_queue'))
           => dpc' \in {"stalled", "check"}]_vars
    /\ [](dpc = "stalled" => pend_frame = <<>>)
    /\ (dpc = "stalled") ~> (dpc = "read")
    /\ (dpc = "push_video") ~> (pend_frame = <<>>)

C7_Witness ==
    /\ dpc = "read"
    /\ after_stall
    /\ Len(video_queue) = Cv - 1
    /\ src_video > 0

\* C8: an audio push that returns normally has appended the whole slice.
C8_PushAllOrFail == [][DPushAudio => audio_rb' = audio_rb \o pend_audio]_vars

\* C9: the audio callback can run in every reachable state, whatever the
\* driver and the pacing thread are doing.
C9_CallbackNeverBlocks == ENABLED AudioCallback

C9_Witness ==
    /\ mutex = "pacer"
    /\ ppc = "callback"
    /\ dpc = "push_audio"
    /\ data # <<>>

\* C10: once the driver has ended and the queue is empty, the pacing thread
\* that finds the queue empty does not start another iteration.
C10_PacerStopsAtEnd ==
    [][(dpc = "done" /\ video_queue = <<>> /\ ppc = "pop")
          => ppc' # "sleep"]_vars

\* C11: once the container has no packet left, a driver that has not
\* panicked eventually leaves its loop, under fair scheduling, whatever the
\* length of the queue at that moment.
C11_DriverTerminates ==
    (src_video = 0 /\ src_audio = 0 /\ dpc # "panicked") ~> (dpc = "done")

C11_Witness ==
    /\ dpc = "done"
    /\ end_cause = "eof"
    /\ after_stall
    /\ Len(delivered) >= 1

\* C12: after the session has ended (start() has returned and every queued
\* frame has been delivered), the pacing thread that waits on the empty queue
\* ends: eventually it has no further step to take.
C12_WaitersEndAfterStop ==
    (dpc = "done" /\ video_queue = <<>> /\ cur = <<>>) ~> ~ENABLED Pacer

\* C13: a packet whose decode fails changes neither the video queue nor the
\* audio ring, leaves no frame and no samples to push, counts as no pushed
\* frame, and sends the driver back to the top of its loop.
C13_DecodeFailureSkips ==
    [][DReadSkip =>
          /\ video_queue' = video_queue
          /\ audio_rb' = audio_rb
          /\ pend_frame' = <<>>
          /\ pend_audio' = <<>>
          /\ nVideo' = nVideo
          /\ dpc' = "check"]_vars

C13_Witness ==
    /\ dpc = "push_video"
    /\ nVideo = 0
    /\ src_audio = 0
    /\ src_video = MaxVideo - 2

\* C14: a driver ended by a read error hands its caller an outcome other
\* than the one of a normal end of stream.
C14_ErrorIsDistinguishable ==
    (end_cause = "error") => (StartOutcome # "returned")

\* C15: the driver never panics on a packet.
C15_NeverPanics == dpc # "panicked"

\* The largest difference between two consecutive timestamps of the model.
FrameInterval == CHOOSE d \in Deltas : \A e \in Deltas : e <= d

\* C16: for strictly increasing timestamps of frames that were available
\* whenever the pacing thread polled, the wall-clock time from the first
\* delivery to the latest one differs from the difference of their
\* timestamps (the first timestamp is 0) by at most one frame interval.
C16_DriftWithinOneInterval ==
    (ppc = "callback" /\ wall # <<>> /\ increasing)
        => Abs(wall[1] - prev_pts[1]) <= FrameInterval

\* C17: when a frame is handed over, prev_pts is its timestamp and `now` is
\* the instant of the hand-over, whatever the pacing sleep overshot; and no
\* step other than that one changes prev_pts or moves `now`.
C17_StampIsActualDelivery ==
    /\ [](ppc = "callback" => (prev_pts = <<cur[1].pts>> /\ sinceNow = 0))
    /\ [][ppc' # "callback"
           => (prev_pts' = prev_pts /\ sinceNow' >= sinceNow)]_vars

C17_Witness ==
    /\ ppc = "callback"
    /\ paced # <<>>
    /\ wall # <<>>
    /\ wall[1] > prev_pts[1]
    /\ sinceNow = 0

\* C18: for pts > prev the sleep_time computed at line 171 is pts - prev.
C18_SleepTimeIsDelta ==
    (ppc = "pace" /\ prev_pts # <<>> /\ cur[1].pts > prev_pts[1])
        => SleepTime(cur[1].pts, prev_pts[1]) = cur[1].pts - prev_pts[1]

\* C19 as stated: the pacing thread holds the mutex for the pop only, so a
\* driver that needs the mutex can take it while the pacing thread paces,
\* stamps or runs the callback.
C19_LockOnlyForPop ==
    (ppc \in {"pace", "stamp", "callback"} /\ dpc \in {"check", "push_video"})
        => ENABLED Driver

\* C19 amended: the pacing thread holds the mutex from the pop until the
\* callback has returned and at no other time; while it holds it the driver
\* can neither test the length nor push, and while it does not the driver
\* can.
C19_LockHeldThroughDelivery ==
    /\ (mutex = "pacer") <=> (ppc \in {"pace", "stamp", "callback"})
    /\ (mutex = "pacer") => (~ENABLED DCheck /\ ~ENABLED DPushVideo)
    /\ (ppc \in {"sleep", "pop"} /\ dpc \in {"check", "push_video"})
          => ENABLED Driver

C19_Witness ==
    /\ mutex = "pacer"
    /\ ppc = "stamp"
    /\ paced # <<>>
    /\ dpc = "push_video"

\* Index of the first stream of a type in the container.
LowestIndex(type) ==
    CHOOSE k \in 0..(Len(streams) - 1) :
        /\ streams[k + 1] = type
        /\ \A j \in 0..(k - 1) : streams[j + 1] # type

\* C20: when new() has unwrapped both options, each is the lowest index of
\* a stream of its type.
C20_SelectsLowestIndex ==
    (npc = "ready")
        => /\ first_audio_stream = <<LowestIndex("audio")>>
           /\ first_video_stream = <<LowestIndex("video")>>

\* The command modifier is held according to the most recent
\* ModifiersChanged event.
CommandHeld ==
    /\ held # <<>>
    /\ IF target_os = "macos" THEN held[1].logo ELSE held[1].ctrl

\* C21: every installed callback is invoked at most once; and while none is
\* installed, before and after a step, the step invokes nothing.
C21_CallbackAtMostOnce ==
    /\ [](\A k \in 1..nSet :
             Cardinality({j \in DOMAIN calls : calls[j].cb = k}) <= 1)
    /\ [][(on_load_file_request = <<>> /\ on_load_file_request' = <<>>)
             => calls' = calls]_vars

C21_Witness ==
    /\ nSet = 1
    /\ Len(calls) = 1
    /\ on_load_file_request = <<>>
    /\ event.kind = "DroppedFile"
    /\ calls[1].url # FormatUrl(target_os, event.path)

\* C22: a KeyboardInput event invokes the installed callback, once and with
\* the formatted clipboard text, if and only if the command modifier is held
\* according to the most recent ModifiersChanged event, the key is V, the
\* clipboard read succeeds and a callback is installed; otherwise it
\* invokes nothing and leaves the callback as it was.
C22_PasteIffCommandV ==
    [][HandleKeyboardInput =>
          IF /\ CommandHeld
             /\ event'.keycode = <<"V">>
             /\ event'.clipboard.ok
             /\ on_load_file_request # <<>>
            THEN /\ calls' = Append(calls,
                        [cb |-> on_load_file_request[1],
                         url |-> FormatUrl(target_os, event'.clipboard.text)])
                 /\ on_load_file_request' = <<>>
            ELSE /\ calls' = calls
                 /\ on_load_file_request' = on_load_file_request]_vars

C22_Witness ==
    /\ event.kind = "KeyboardInput"
    /\ event.keycode = <<"V">>
    /\ ~event.clipboard.ok
    /\ CommandHeld
    /\ on_load_file_request # <<>>
    /\ calls = <<>>

\* C23: the frame-forwarding thread never panics, whatever main_ffmpeg has
\* done, its return at the end of the file included.
C23_ForwarderEndsCleanly == rpc # "panicked"

====
